---- MODULE Spec2Model ----
(***************************************************************************)
(* Model of riffusion/streamlit/pages/interpolation.py: the interpolation  *)
(* page (render_interpolation) and the memoized per-step inference         *)
(* (run_interpolation).                                                    *)
(*                                                                         *)
(* Numbers that are floats in the program are exact rationals <<n, d>> in  *)
(* lowest terms here, so that value-equal alphas are equal keys.           *)
(***************************************************************************)
EXTENDS Integers, Sequences, FiniteSets, TLC

VARIABLES
    pc,                 \* position of the script run
    cfg,                \* widget values of the current script run
    alphas,             \* alphas (line 118)
    alphas_str,         \* formatted alphas (line 119)
    init_image,         \* the loaded seed image ("" while none is loaded)
    i,                  \* number of completed loop iterations (line 141)
    requests,           \* InferenceInput objects built in this run, in order
    inflight,           \* run_interpolation calls issued and not yet returned
    image_list,         \* line 139
    audio_bytes_list,   \* line 140
    concat_segment,     \* line 174-176
    shown,              \* st.audio of individual steps (line 165), this run
    shown_images,       \* st.image of individual steps (line 164), this run
    final_audio,        \* st.audio of the stitched track (line 183), 0 or 1
    download,           \* st.download_button (line 189), 0 or 1
    reason,             \* why the run ended early ("" if it did not)
    cache,              \* st.experimental_memo store of run_interpolation
    run_invocations,    \* entries of run_interpolation's body in this run
    cold_start,         \* the cache was empty when this run started
    repeat,             \* this run repeats the widget values of a packaged run
    runs,               \* script runs started so far
    invocations,        \* direct calls, per arguments: entries of the body
    completions,        \* direct calls, per arguments: returns of the body
    last_return,        \* last return of a direct call, 0 or 1
    calls               \* direct calls of run_interpolation so far

vars == <<pc, cfg, alphas, alphas_str, init_image, i, requests, inflight,
          image_list, audio_bytes_list, concat_segment, shown, shown_images,
          final_audio, download, reason, cache, run_invocations, cold_start,
          repeat, runs, invocations, completions, last_return, calls>>

----------------------------------------------------------------------------
(* Bounds of the model *)

MaxN == 2
MaxRuns == 2
MaxWidth == 2
MaxCalls == 3

(* Program constants *)

MinSteps == 1
MaxSteps == 20
DefaultSteps == 4
DefaultInferenceSteps == 50
DefaultGuidance == 7
DefaultSeed == 42

----------------------------------------------------------------------------
(* Exact rationals *)

RECURSIVE GCD(_, _)
GCD(a, b) == IF b = 0 THEN a ELSE GCD(b, a % b)

Rat(n, d) == IF n = 0 THEN <<0, 1>> ELSE <<n \div GCD(n, d), d \div GCD(n, d)>>

RatMul(x, y) == Rat(x[1] * y[1], x[2] * y[2])

RatAdd(x, y) == Rat(x[1] * y[2] + y[1] * x[2], x[2] * y[2])

RatSub(x, y) == Rat(x[1] * y[2] - y[1] * x[2], x[2] * y[2])

RatDivInt(x, k) == Rat(x[1], x[2] * k)

RatLeq(x, y) == x[1] * y[2] <= y[1] * x[2]

RatLt(x, y) == x[1] * y[2] < y[1] * x[2]

Zero == Rat(0, 1)

One == Rat(1, 1)

DefaultDenoising == Rat(1, 2)

----------------------------------------------------------------------------
(* Alpha scheduler: np.linspace(0, 1, num) and the 2-decimal display *)

Arange(num) == [k \in 1..num |-> Rat(k - 1, 1)]

\* np.linspace with endpoint=False
LinspaceNoEndpoint(start, stop, num) ==
    [k \in 1..num |-> RatAdd(start, RatMul(Rat(k - 1, 1), RatDivInt(RatSub(stop, start), num)))]

Linspace(start, stop, num) ==
    LET div   == num - 1
        delta == RatSub(stop, start)
        y0    == Arange(num)
        y1    == IF div > 0
                 THEN [k \in 1..num |-> RatMul(y0[k], RatDivInt(delta, div))]
                 ELSE [k \in 1..num |-> RatMul(y0[k], delta)]
        y2    == [k \in 1..num |-> RatAdd(y1[k], start)]
    IN  IF num > 1 THEN [y2 EXCEPT ![num] = stop] ELSE y2

\* f"{alpha:.2f}": round to hundredths, ties to even; <<units, hundredths>>
Format2f(x) ==
    LET q == (100 * x[1]) \div x[2]
        r == (100 * x[1]) % x[2]
        h == IF 2 * r < x[2] THEN q
             ELSE IF 2 * r > x[2] THEN q + 1
             ELSE IF q % 2 = 0 THEN q ELSE q + 1
    IN  <<h \div 100, h % 100>>

FormatAlphas(as) == [k \in 1..Len(as) |-> Format2f(as[k])]

----------------------------------------------------------------------------
(* Widget values of one script run (lines 44-112) *)

Prompts == {<<>>, <<"a", " ", "b">>}

Devices == {"cuda"}

Extensions == {"mp3", "wav"}

SeedImageNames == {"og_beat", "custom"}

\* PromptInput(guidance=guidance, **get_prompt_inputs(key))
PromptInput(guidance, prompt) ==
    [guidance |-> guidance, prompt |-> prompt, seed |-> DefaultSeed,
     denoising |-> DefaultDenoising]

\* init_image_file: the uploaded file when "custom" is selected, for a named
\* image the asset file; "" stands for no file or one that does not open.
\* show_images is read only when show_individual_outputs is set (lines
\* 161-164), so it is varied only there.
Configs ==
  {c \in
    [device : Devices,
     extension : Extensions,
     num_interpolation_steps : MinSteps..MaxN,
     num_inference_steps : {DefaultInferenceSteps},
     init_image_name : SeedImageNames,
     init_image_file : {"", "file"},
     show_individual_outputs : BOOLEAN,
     show_images : BOOLEAN,
     prompt_input_a : {PromptInput(DefaultGuidance, p) : p \in Prompts},
     prompt_input_b : {PromptInput(DefaultGuidance, p) : p \in Prompts}] :
     c.show_images => c.show_individual_outputs}

DefaultConfig ==
    [device |-> "cuda", extension |-> "mp3",
     num_interpolation_steps |-> DefaultSteps,
     num_inference_steps |-> DefaultInferenceSteps,
     init_image_name |-> "og_beat", init_image_file |-> "file",
     show_individual_outputs |-> FALSE, show_images |-> FALSE,
     prompt_input_a |-> PromptInput(DefaultGuidance, <<>>),
     prompt_input_b |-> PromptInput(DefaultGuidance, <<>>)]

----------------------------------------------------------------------------
(* Steps of render_interpolation before the loop *)

\* line 114: not (not a.prompt or not b.prompt)
PromptsAlwaysGiven(c) == TRUE

PromptsGiven(c) ==
    c.prompt_input_a.prompt # <<>> /\ c.prompt_input_b.prompt # <<>>

\* lines 127-136: the seed image can be opened
SeedImageAlwaysAvailable(c) == TRUE

SeedImageAvailable(c) == c.init_image_file # ""

\* lines 131, 136: Image.open(...).convert("RGB"); the image is named by
\* what was opened
LoadSeedImage(c) ==
    IF c.init_image_name = "custom" THEN "upload" ELSE c.init_image_name

\* lines 142-148
InferenceInput(alpha, c) ==
    [alpha |-> alpha,
     num_inference_steps |-> c.num_inference_steps,
     seed_image_id |-> "og_beat",
     start |-> c.prompt_input_a,
     end |-> c.prompt_input_b]

----------------------------------------------------------------------------
(* run_interpolation and its memo *)

Args(inputs, image, device, extension) ==
    [inputs |-> inputs, init_image |-> image, device |-> device,
     extension |-> extension]

\* The clip length follows the width of the seed image ("5 seconds per
\* step", line 37): frames per generated clip
ImageWidth(image) == IF image = "upload" THEN 1 ELSE MaxWidth

\* The value of every frame of a clip names the alpha it was generated at
Tone(alpha) == 1 + 100 * Format2f(alpha)[1] + Format2f(alpha)[2]

\* Container of encoded audio
EncodeAudio(segment, format) == [format |-> format, payload |-> segment]

\* Decoding strips the container; an mp3 decodes with one leading frame of
\* encoder padding
DecodeAudio(bytes) ==
    IF bytes.format = "mp3" THEN <<0>> \o bytes.payload ELSE bytes.payload

\* Body of run_interpolation (lines 243-269): the image is named by the
\* arguments it was generated from
RunInterpolationBody(a) ==
    [image |-> a,
     audio |-> EncodeAudio([j \in 1..ImageWidth(a.init_image) |-> Tone(a.inputs.alpha)],
                           a.extension)]

\* st.experimental_memo (line 236): the key is made of all four arguments
CacheKeyNoExtension(a) == <<a.inputs, a.init_image, a.device>>

CacheKeyNoAlpha(a) ==
    <<[a.inputs EXCEPT !.alpha = Zero], a.init_image, a.device, a.extension>>

CacheKey(a) == <<a.inputs, a.init_image, a.device, a.extension>>

Cached(a) == CacheKey(a) \in DOMAIN cache

Store(a, result) ==
    [k \in DOMAIN cache \cup {CacheKey(a)} |->
        IF k = CacheKey(a) THEN result ELSE cache[k]]

----------------------------------------------------------------------------
(* Audio stitcher and output packager (lines 173-194) *)

\* seg1.append(seg2, crossfade=c) with c > 0 overlaps the two ends
SegmentAppendCrossfade(seg1, seg2) ==
    SubSeq(seg1, 1, Len(seg1) - 1) \o seg2

SegmentAppendBefore(seg1, seg2) == seg2 \o seg1

\* concat_segment.append(segment, crossfade=0), line 176
SegmentAppend(seg1, seg2) == seg1 \o seg2

\* lines 175-176: the loop over the rest of the segments
RECURSIVE AppendAll(_, _)
AppendAll(concat, rest) ==
    IF rest = <<>> THEN concat
    ELSE AppendAll(SegmentAppend(concat, Head(rest)), Tail(rest))

StitchFromAll(audio_segments) == AppendAll(audio_segments[1], audio_segments)

\* lines 174-176
Stitch(audio_segments) == AppendAll(audio_segments[1], Tail(audio_segments))

\* prompt.replace(' ', '_')
ReplaceSpaces(prompt) ==
    [k \in 1..Len(prompt) |-> IF prompt[k] = " " THEN "_" ELSE prompt[k]]

\* lines 185-188
OutputName(c) ==
    ReplaceSpaces(c.prompt_input_a.prompt) \o <<"_">> \o
    ReplaceSpaces(c.prompt_input_b.prompt) \o <<".", c.extension>>

----------------------------------------------------------------------------
(* State after the process started: no script run yet, empty memo *)

EmptyMap == [k \in {} |-> k]

Init ==
    /\ pc = "CollectingInputs"
    /\ cfg = DefaultConfig
    /\ alphas = <<>>
    /\ alphas_str = <<>>
    /\ init_image = ""
    /\ i = 0
    /\ requests = <<>>
    /\ inflight = 0
    /\ image_list = <<>>
    /\ audio_bytes_list = <<>>
    /\ concat_segment = <<>>
    /\ shown = <<>>
    /\ shown_images = <<>>
    /\ final_audio = <<>>
    /\ download = <<>>
    /\ reason = ""
    /\ cache = EmptyMap
    /\ run_invocations = 0
    /\ cold_start = TRUE
    /\ repeat = FALSE
    /\ runs = 0
    /\ invocations = EmptyMap
    /\ completions = EmptyMap
    /\ last_return = <<>>
    /\ calls = 0

direct_vars == <<invocations, completions, last_return, calls>>

----------------------------------------------------------------------------
(* One script run of render_interpolation *)

\* lines 16-139: a (re)run of the script with widget values c, up to the loop
RenderStart(c) ==
    /\ pc \in {"CollectingInputs", "Packaged", "Aborted"}
    /\ runs < MaxRuns
    /\ runs' = runs + 1
    /\ repeat' = (pc = "Packaged" /\ c = cfg)
    /\ cold_start' = (DOMAIN cache = {})
    /\ cfg' = c
    /\ i' = 0
    /\ requests' = <<>>
    /\ inflight' = 0
    /\ image_list' = <<>>
    /\ audio_bytes_list' = <<>>
    /\ concat_segment' = <<>>
    /\ shown' = <<>>
    /\ shown_images' = <<>>
    /\ final_audio' = <<>>
    /\ download' = <<>>
    /\ run_invocations' = 0
    /\ IF ~PromptsGiven(c)
       THEN /\ alphas' = <<>>
            /\ alphas_str' = <<>>
            /\ init_image' = ""
            /\ reason' = "ValidationError"
            /\ pc' = "Aborted"
       ELSE /\ alphas' = Linspace(Zero, One, c.num_interpolation_steps)
            /\ alphas_str' = FormatAlphas(alphas')
            /\ IF ~SeedImageAvailable(c)
               THEN /\ init_image' = ""
                    /\ reason' = "SeedImageError"
                    /\ pc' = "Aborted"
               ELSE /\ init_image' = LoadSeedImage(c)
                    /\ reason' = ""
                    /\ pc' = "Stepping"
    /\ UNCHANGED <<cache, direct_vars>>

\* line 141: enumerate(alphas)
NextAlphaReversed == alphas[Len(alphas) - i]

NextAlpha == alphas[i + 1]

\* lines 141-159: build the request of the next step and call run_interpolation
CallRunInterpolation ==
    /\ pc = "Stepping"
    /\ requests' = Append(requests, InferenceInput(NextAlpha, cfg))
    /\ inflight' = inflight + 1
    /\ pc' = "Calling"
    /\ UNCHANGED <<cfg, alphas, alphas_str, init_image, i, image_list,
                   audio_bytes_list, concat_segment, shown, shown_images,
                   final_audio, download, reason, cache, run_invocations,
                   cold_start, repeat, runs, direct_vars>>

\* the arguments of the call in flight (lines 154-159)
CurrentArgs ==
    Args(requests[Len(requests)], init_image, cfg.device, cfg.extension)

\* the loop body with the test of line 161 left out
StepDoneAlwaysShow(result) ==
    /\ inflight' = inflight - 1
    /\ shown' = Append(shown, result.audio)
    /\ shown_images' = IF cfg.show_images
                       THEN Append(shown_images, result.image) ELSE shown_images
    /\ image_list' = Append(image_list, result.image)
    /\ audio_bytes_list' = Append(audio_bytes_list, result.audio)
    /\ i' = i + 1
    /\ pc' = IF i + 1 < Len(alphas) THEN "Stepping" ELSE "Stitching"
    /\ UNCHANGED <<cfg, alphas, alphas_str, init_image, requests,
                   concat_segment, final_audio, download, reason, cold_start,
                   repeat, runs, direct_vars>>

\* lines 161-168: the rest of the loop body once the call has returned
StepDone(result) ==
    /\ inflight' = inflight - 1
    /\ shown' = IF cfg.show_individual_outputs
                THEN Append(shown, result.audio) ELSE shown
    /\ shown_images' = IF cfg.show_individual_outputs /\ cfg.show_images
                       THEN Append(shown_images, result.image) ELSE shown_images
    /\ image_list' = Append(image_list, result.image)
    /\ audio_bytes_list' = Append(audio_bytes_list, result.audio)
    /\ i' = i + 1
    /\ pc' = IF i + 1 < Len(alphas) THEN "Stepping" ELSE "Stitching"
    /\ UNCHANGED <<cfg, alphas, alphas_str, init_image, requests,
                   concat_segment, final_audio, download, reason, cold_start,
                   repeat, runs, direct_vars>>

\* line 236: the memo has the value of these arguments
MemoHit ==
    /\ pc = "Calling"
    /\ Cached(CurrentArgs)
    /\ StepDone(cache[CacheKey(CurrentArgs)])
    /\ UNCHANGED <<cache, run_invocations>>

\* lines 236-269: the memo has no value, the body runs and returns
MemoMiss ==
    /\ pc = "Calling"
    /\ ~Cached(CurrentArgs)
    /\ run_invocations' = run_invocations + 1
    /\ cache' = Store(CurrentArgs, RunInterpolationBody(CurrentArgs))
    /\ StepDone(RunInterpolationBody(CurrentArgs))

\* lines 243-267: the body raises (model or device failure); nothing is stored
MemoRaise ==
    /\ pc = "Calling"
    /\ ~Cached(CurrentArgs)
    /\ run_invocations' = run_invocations + 1
    /\ inflight' = inflight - 1
    /\ reason' = "InferenceError"
    /\ pc' = "Aborted"
    /\ UNCHANGED <<cfg, alphas, alphas_str, init_image, i, requests,
                   image_list, audio_bytes_list, concat_segment, shown,
                   shown_images, final_audio, download, cache, cold_start,
                   repeat, runs, direct_vars>>

\* lines 170-194: decode, concatenate, encode, show and offer the download;
\* from_file (line 173) or export (line 179) may raise
StitchAndPackage ==
    /\ pc = "Stitching"
    /\ \E outcome \in {"ok", "decode_error", "encode_error"} :
         LET audio_segments ==
                 [k \in 1..Len(audio_bytes_list) |-> DecodeAudio(audio_bytes_list[k])]
             audio_bytes == EncodeAudio(Stitch(audio_segments), cfg.extension)
         IN  /\ concat_segment' = IF outcome = "decode_error" THEN <<>>
                                  ELSE Stitch(audio_segments)
             /\ final_audio' = IF outcome = "ok"
                               THEN <<[data |-> audio_bytes,
                                       duration |-> Len(Stitch(audio_segments))]>>
                               ELSE <<>>
             /\ download' = IF outcome = "ok"
                            THEN <<[file_name |-> OutputName(cfg),
                                    data |-> audio_bytes,
                                    mime |-> <<"audio/", cfg.extension>>]>>
                            ELSE <<>>
             /\ reason' = IF outcome = "ok" THEN "" ELSE "CodecError"
             /\ pc' = IF outcome = "ok" THEN "Packaged" ELSE "Aborted"
    /\ UNCHANGED <<cfg, alphas, alphas_str, init_image, i, requests, inflight,
                   image_list, audio_bytes_list, shown, shown_images, cache,
                   run_invocations, cold_start, repeat, runs, direct_vars>>

Next ==
    \/ \E c \in Configs : RenderStart(c)
    \/ CallRunInterpolation
    \/ MemoHit
    \/ MemoMiss
    \/ MemoRaise
    \/ StitchAndPackage

Spec == Init /\ [][Next]_vars

----------------------------------------------------------------------------
(* run_interpolation called directly, any arguments in any order *)

GivenConfig ==
    [DefaultConfig EXCEPT
        !.prompt_input_a = PromptInput(DefaultGuidance, <<"a", " ", "b">>),
        !.prompt_input_b = PromptInput(DefaultGuidance, <<"a", " ", "b">>)]

BaseArgs == Args(InferenceInput(Zero, GivenConfig), "og_beat", "cuda", "mp3")

\* the base arguments and those that differ from them in one component
ArgSpace ==
    {BaseArgs,
     [BaseArgs EXCEPT !.inputs = InferenceInput(One, GivenConfig)],
     [BaseArgs EXCEPT !.init_image = "upload"],
     [BaseArgs EXCEPT !.device = "cpu"],
     [BaseArgs EXCEPT !.extension = "wav"]}

Count(f, a) == IF a \in DOMAIN f THEN f[a] ELSE 0

Bump(f, a) == [x \in DOMAIN f \cup {a} |-> IF x = a THEN Count(f, a) + 1 ELSE f[x]]

pipeline_vars == <<pc, cfg, alphas, alphas_str, init_image, i, requests,
                   inflight, image_list, audio_bytes_list, concat_segment,
                   shown, shown_images, final_audio, download, reason,
                   run_invocations, cold_start, repeat, runs>>

\* line 236: the memo has the value
DirectHit(a) ==
    /\ calls < MaxCalls
    /\ Cached(a)
    /\ calls' = calls + 1
    /\ last_return' = <<[args |-> a, result |-> cache[CacheKey(a)], computed |-> FALSE]>>
    /\ UNCHANGED <<cache, invocations, completions, pipeline_vars>>

\* lines 236-269: the body runs and returns
DirectMiss(a) ==
    /\ calls < MaxCalls
    /\ ~Cached(a)
    /\ calls' = calls + 1
    /\ invocations' = Bump(invocations, a)
    /\ completions' = Bump(completions, a)
    /\ cache' = Store(a, RunInterpolationBody(a))
    /\ last_return' = <<[args |-> a, result |-> RunInterpolationBody(a), computed |-> TRUE]>>
    /\ UNCHANGED pipeline_vars

\* lines 243-267: the body raises; nothing is stored, nothing returned
DirectRaise(a) ==
    /\ calls < MaxCalls
    /\ ~Cached(a)
    /\ calls' = calls + 1
    /\ invocations' = Bump(invocations, a)
    /\ last_return' = <<>>
    /\ UNCHANGED <<cache, completions, pipeline_vars>>

NextMemo ==
    \E a \in ArgSpace : DirectHit(a) \/ DirectMiss(a) \/ DirectRaise(a)

SpecMemo == Init /\ [][NextMemo]_vars

----------------------------------------------------------------------------
(* The alpha scheduler alone, for every step count of the widget *)

InitAlpha ==
    /\ pc = "Scheduling"
    /\ cfg \in {[GivenConfig EXCEPT !.num_interpolation_steps = n] :
                    n \in MinSteps..MaxSteps}
    /\ alphas = <<>>
    /\ alphas_str = <<>>
    /\ init_image = ""
    /\ i = 0
    /\ requests = <<>>
    /\ inflight = 0
    /\ image_list = <<>>
    /\ audio_bytes_list = <<>>
    /\ concat_segment = <<>>
    /\ shown = <<>>
    /\ shown_images = <<>>
    /\ final_audio = <<>>
    /\ download = <<>>
    /\ reason = ""
    /\ cache = EmptyMap
    /\ run_invocations = 0
    /\ cold_start = TRUE
    /\ repeat = FALSE
    /\ runs = 0
    /\ invocations = EmptyMap
    /\ completions = EmptyMap
    /\ last_return = <<>>
    /\ calls = 0

\* line 118
Schedule ==
    /\ pc = "Scheduling"
    /\ alphas' = Linspace(Zero, One, cfg.num_interpolation_steps)
    /\ pc' = "Formatting"
    /\ UNCHANGED <<cfg, alphas_str, init_image, i, requests, inflight,
                   image_list, audio_bytes_list, concat_segment, shown,
                   shown_images, final_audio, download, reason, cache,
                   run_invocations, cold_start, repeat, runs, direct_vars>>

\* line 119, one alpha of the list comprehension at a time
FormatNext ==
    /\ pc = "Formatting"
    /\ alphas_str' = IF Len(alphas_str) < Len(alphas)
                     THEN Append(alphas_str, Format2f(alphas[Len(alphas_str) + 1]))
                     ELSE alphas_str
    /\ pc' = IF Len(alphas_str') = Len(alphas) THEN "Scheduled" ELSE "Formatting"
    /\ UNCHANGED <<cfg, alphas, init_image, i, requests, inflight,
                   image_list, audio_bytes_list, concat_segment, shown,
                   shown_images, final_audio, download, reason, cache,
                   run_invocations, cold_start, repeat, runs, direct_vars>>

NextAlphaSchedule == Schedule \/ FormatNext

SpecAlpha == InitAlpha /\ [][NextAlphaSchedule]_vars

----------------------------------------------------------------------------
(* Properties *)

RunStarted == pc # "CollectingInputs"

EmptyPrompt ==
    cfg.prompt_input_a.prompt = <<>> \/ cfg.prompt_input_b.prompt = <<>>

\* the arguments of the call of step k of the current run
StepArgs(k) ==
    Args(InferenceInput(alphas[k], cfg), init_image, cfg.device, cfg.extension)

RECURSIVE SumOfDurations(_)
SumOfDurations(bytes_list) ==
    IF bytes_list = <<>> THEN 0
    ELSE Len(DecodeAudio(Head(bytes_list))) + SumOfDurations(Tail(bytes_list))

\* the frames of all segments, in index order
RECURSIVE Concatenation(_)
Concatenation(bytes_list) ==
    IF bytes_list = <<>> THEN <<>>
    ELSE Concatenation(SubSeq(bytes_list, 1, Len(bytes_list) - 1))
         \o DecodeAudio(bytes_list[Len(bytes_list)])

\* C1: a run whose prompt A or B is empty ends aborted by the validation,
\* with no request built, no call of run_interpolation issued and no
\* inference invoked; the validation never ends a run that has built one.
C1_EmptyPromptAbortsBeforeInference ==
    /\ (RunStarted /\ EmptyPrompt) =>
          /\ pc = "Aborted"
          /\ reason = "ValidationError"
          /\ requests = <<>>
          /\ inflight = 0
          /\ run_invocations = 0
          /\ audio_bytes_list = <<>>
    /\ reason = "ValidationError" => (requests = <<>> /\ i = 0)

C1_Witness ==
    /\ pc = "Aborted"
    /\ reason = "ValidationError"
    /\ cfg.prompt_input_a.prompt # <<>>
    /\ cfg.prompt_input_b.prompt = <<>>
    /\ DOMAIN cache # {}

\* C2 as stated: a run that ended in abort has exposed no audio at all,
\* neither of a step nor stitched.
C2_NoAudioExposedOnAbort ==
    pc = "Aborted" => (shown = <<>> /\ final_audio = <<>> /\ download = <<>>)

\* C2 amended: a run that ended in abort has exposed no stitched audio and
\* no download; stitched audio is exposed only in the packaged state, with
\* all N steps stitched; audio of single steps is exposed before the abort
\* exactly when "show individual outputs" is set, and then it is the audio
\* of the steps completed so far.
C2_NoStitchedOutputOnAbort ==
    /\ pc # "Packaged" => (final_audio = <<>> /\ download = <<>>)
    /\ pc = "Packaged" =>
          /\ Len(audio_bytes_list) = cfg.num_interpolation_steps
          /\ Len(final_audio) = 1 /\ Len(download) = 1
          /\ final_audio[1].data = EncodeAudio(concat_segment, cfg.extension)
          /\ download[1].data = final_audio[1].data
    /\ (RunStarted /\ ~cfg.show_individual_outputs) => shown = <<>>
    /\ (RunStarted /\ cfg.show_individual_outputs) => shown = audio_bytes_list

C2_Witness ==
    /\ pc = "Aborted"
    /\ reason = "InferenceError"
    /\ ~cfg.show_individual_outputs
    /\ i = 1
    /\ shown = <<>>

\* C3: the calls of one run are issued one at a time in the order of the
\* alphas: at most one call is in flight, the k-th call issued carries the
\* k-th alpha, and a call is issued only when all earlier ones have returned.
C3_SequentialAscendingCalls ==
    /\ inflight \in {0, 1}
    /\ inflight = 1 <=> pc = "Calling"
    /\ Len(requests) <= Len(alphas)
    /\ \A k \in 1..Len(requests) : requests[k].alpha = alphas[k]
    /\ \A j, k \in 1..Len(requests) :
          j < k => RatLt(requests[j].alpha, requests[k].alpha)
    /\ pc = "Calling" => Len(requests) = i + 1
    /\ pc \in {"Stepping", "Stitching", "Packaged"} => Len(requests) = i
    /\ Len(requests) <= i + 1

C3_Witness ==
    /\ pc = "Calling"
    /\ Len(requests) = 2
    /\ i = 1
    /\ requests[1].alpha = Zero
    /\ requests[2].alpha = One

\* C4 as stated: the body of run_interpolation is entered at most once per
\* distinct arguments, a call with arguments seen before returns the stored
\* result, and every result was computed from the arguments of its call.
C4_InvokedAtMostOncePerKey ==
    /\ \A a \in DOMAIN invocations : invocations[a] <= 1
    /\ \A a \in ArgSpace : Cached(a) => cache[CacheKey(a)].image = a
    /\ \A r \in 1..Len(last_return) :
          /\ last_return[r].result.image = last_return[r].args
          /\ last_return[r].result = cache[CacheKey(last_return[r].args)]

\* C4 amended: the body of run_interpolation returns at most once per
\* distinct arguments (an entry that raises stores nothing, so the next call
\* with these arguments enters it again); the memo holds exactly the
\* arguments whose computation returned; a call with such arguments returns
\* the stored result without entering the body; every result returned or
\* stored was computed from exactly the arguments of the call.
C4_ComputedAtMostOncePerKey ==
    /\ \A a \in ArgSpace :
          /\ Count(completions, a) <= 1
          /\ Count(completions, a) <= Count(invocations, a)
          /\ Cached(a) <=> Count(completions, a) = 1
          /\ Cached(a) => cache[CacheKey(a)].image = a
    /\ \A r \in 1..Len(last_return) :
          /\ last_return[r].result.image = last_return[r].args
          /\ last_return[r].result.audio.format = last_return[r].args.extension
          /\ last_return[r].result = cache[CacheKey(last_return[r].args)]
          /\ ~last_return[r].computed =>
                Count(invocations, last_return[r].args) >= 1

C4_Witness ==
    /\ Len(last_return) = 1
    /\ ~last_return[1].computed
    /\ Count(invocations, last_return[1].args) = 2
    /\ Cardinality(DOMAIN cache) = 1

\* C5: for every step count N of the widget the scheduler yields N values,
\* the k-th being (k-1)/(N-1) when N > 1 and the single value 0 when N = 1;
\* they do not decrease, start at 0, end at 1 when N > 1 and lie in [0, 1].
C5_AlphaSchedule ==
    pc \in {"Formatting", "Scheduled"} =>
        LET N == cfg.num_interpolation_steps IN
        /\ Len(alphas) = N
        /\ \A k \in 1..N :
              /\ alphas[k] = IF N > 1 THEN Rat(k - 1, N - 1) ELSE Zero
              /\ RatLeq(Zero, alphas[k]) /\ RatLeq(alphas[k], One)
        /\ \A k \in 1..(N - 1) : RatLeq(alphas[k], alphas[k + 1])
        /\ alphas[1] = Zero
        /\ N > 1 => alphas[N] = One

C5_Witness ==
    /\ pc = "Scheduled"
    /\ cfg.num_interpolation_steps = MaxSteps
    /\ alphas[2] = <<1, 19>>
    /\ alphas[MaxSteps] = One

\* C6: the stitched segment has as many frames as the decoded step segments
\* have together.
C6_StitchedDurationIsSum ==
    concat_segment # <<>> =>
        /\ Len(concat_segment) = SumOfDurations(audio_bytes_list)
        /\ pc = "Packaged" => final_audio[1].duration = SumOfDurations(audio_bytes_list)

C6_Witness ==
    /\ pc = "Packaged"
    /\ Len(audio_bytes_list) = 2
    /\ cfg.extension = "mp3"
    /\ Len(concat_segment) > Len(DecodeAudio(audio_bytes_list[1]))

\* C7: a run whose seed image cannot be opened ends aborted with no request
\* built and no call of run_interpolation; with both prompts given the
\* reason is the seed image.
C7_NoSeedImageAbortsBeforeStepping ==
    (RunStarted /\ cfg.init_image_file = "") =>
        /\ pc = "Aborted"
        /\ requests = <<>>
        /\ inflight = 0
        /\ run_invocations = 0
        /\ audio_bytes_list = <<>>
        /\ ~EmptyPrompt => reason = "SeedImageError"

C7_Witness ==
    /\ pc = "Aborted"
    /\ reason = "SeedImageError"
    /\ cfg.init_image_name = "custom"
    /\ cfg.init_image_file = ""
    /\ alphas # <<>>

\* C8: with N = 1 the stitched segment is the decoded segment of the one
\* step, and that step was requested with alpha 0.
C8_SingleStepVerbatim ==
    (cfg.num_interpolation_steps = 1 /\ concat_segment # <<>>) =>
        /\ Len(audio_bytes_list) = 1
        /\ concat_segment = DecodeAudio(audio_bytes_list[1])
        /\ Len(requests) = 1
        /\ requests[1].alpha = Zero
        /\ image_list[1].inputs = requests[1]

C8_Witness ==
    /\ pc = "Packaged"
    /\ cfg.num_interpolation_steps = 1
    /\ concat_segment = DecodeAudio(audio_bytes_list[1])

\* C9: when stitching begins the run holds N results, the k-th being the
\* result of the request with the k-th alpha; the stitched segment is the
\* frames of those N segments in index order.
C9_OrderedCompleteStitch ==
    /\ pc \in {"Stitching", "Packaged"} =>
          /\ Len(audio_bytes_list) = cfg.num_interpolation_steps
          /\ Len(image_list) = cfg.num_interpolation_steps
          /\ \A k \in 1..cfg.num_interpolation_steps :
                /\ image_list[k] = StepArgs(k)
                /\ audio_bytes_list[k] = RunInterpolationBody(StepArgs(k)).audio
          /\ \A k \in 1..(cfg.num_interpolation_steps - 1) :
                RatLt(alphas[k], alphas[k + 1])
    /\ concat_segment # <<>> =>
          concat_segment = Concatenation(audio_bytes_list)

C9_Witness ==
    /\ pc = "Packaged"
    /\ cfg.num_interpolation_steps = 2
    /\ cfg.extension = "wav"
    /\ concat_segment = DecodeAudio(audio_bytes_list[1]) \o DecodeAudio(audio_bytes_list[2])
    /\ concat_segment[1] # concat_segment[Len(concat_segment)]

\* C10: the requests of one run differ only in alpha, their alphas increase
\* strictly and their memo keys are pairwise distinct; a packaged run that
\* started with an empty memo entered the body N times, and a run repeating
\* the widget values of the packaged run before it enters it never.
C10_OneInvocationPerStep ==
    /\ \A j, k \in 1..Len(requests) :
          j < k =>
            /\ RatLt(requests[j].alpha, requests[k].alpha)
            /\ [requests[j] EXCEPT !.alpha = Zero] = [requests[k] EXCEPT !.alpha = Zero]
            /\ CacheKey(Args(requests[j], init_image, cfg.device, cfg.extension))
                 # CacheKey(Args(requests[k], init_image, cfg.device, cfg.extension))
    /\ (pc = "Packaged" /\ cold_start) =>
          run_invocations = cfg.num_interpolation_steps
    /\ repeat => run_invocations = 0

C10_Witness ==
    /\ pc = "Packaged"
    /\ repeat
    /\ cfg.num_interpolation_steps = 2
    /\ run_invocations = 0
    /\ Cardinality(DOMAIN cache) = 2

====
